---- MODULE Spec2Model ----
(***************************************************************************)
(* Model of the aquaculture feature-engineering pipeline                   *)
(* (data-engineering/ml-pipeline/feature_engineering.py).                  *)
(*                                                                         *)
(* Times are minutes since an arbitrary midnight.  A float is a fixed-point*)
(* integer with two decimal places (20.5 is 2050); division and square     *)
(* root round towards minus infinity, standing for float rounding.  A cell *)
(* of a table is a record [k, n, s]: k names its kind ("num" a float, "nan",*)
(* "inf", "int" a whole number that is not in fixed point, "ts" a datetime,*)
(* "str", "bool"), n is its number, s its string.  A                       *)
(* DataFrame is [cols, col, n]: the ordered column names, the column       *)
(* values by name, and the number of rows.                                 *)
(***************************************************************************)
EXTENDS Integers, Sequences, FiniteSets, TLC

VARIABLES
    config,        \* self.config: the FeatureConfig of the engineer
    hash_seed,     \* the process's string-hash seed (PYTHONHASHSEED)
    now,           \* wall clock of the cache server, in seconds
    cache,         \* redis: key -> [value, expires]
    store,         \* sensor_data.readings: tank -> name of the data it holds
    sink,          \* ml_features.tank_features: <<timestamp, tank>> -> record
    ret,           \* what the last call did and returned
    batch          \* frame of the running batch_engineer_features call

vars == <<config, hash_seed, now, cache, store, sink, ret, batch>>

(***************************************************************************)
(* Bounds of the model.                                                    *)
(***************************************************************************)
\* the clock stops after this many ticks
MaxTicks == 2
\* a batch that never ends is followed for this many units of work
MaxCalls == 5

(***************************************************************************)
(* Units.                                                                  *)
(***************************************************************************)
\* timedelta(hours=1), in minutes
HourMinutes == 60
\* fixed-point scale of a float: two decimal places
Scale == 100
\* what DataFrame.to_json keeps of a float (double_precision): one decimal
\* place of the two, i.e. fewer digits than the float carries
JsonScale == 10
\* seconds between two ticks of the clock
TickSeconds == 1800

(***************************************************************************)
(* Cells.                                                                  *)
(***************************************************************************)
Num(x) == [k |-> "num", n |-> x, s |-> ""]
NaN == [k |-> "nan", n |-> 0, s |-> ""]
Inf(sign) == [k |-> "inf", n |-> sign, s |-> ""]
Ts(t) == [k |-> "ts", n |-> t, s |-> ""]
Whole(x) == [k |-> "int", n |-> x, s |-> ""]
Str(x) == [k |-> "str", n |-> 0, s |-> x]
Bool(b) == [k |-> "bool", n |-> IF b THEN 1 ELSE 0, s |-> ""]

IsNum(c) == c.k = "num"
IsNaN(c) == c.k = "nan"
\* select_dtypes(include=[np.number]) keeps the int and float columns
IsNumeric(c) == c.k \in {"num", "int", "nan", "inf"}

Abs(x) == IF x < 0 THEN -x ELSE x
Sign(x) == IF x < 0 THEN -1 ELSE 1

\* float subtraction
FSub(a, b) ==
    IF IsNum(a) /\ IsNum(b) THEN Num(a.n - b.n)
    ELSE IF a.k = "inf" /\ b.k # "nan" /\ ~(b.k = "inf" /\ b.n = a.n) THEN a
    ELSE IF b.k = "inf" /\ a.k = "num" THEN Inf(-b.n)
    ELSE NaN

\* float division: x/0 is +-inf, 0/0 is nan
FDiv(a, b) ==
    IF IsNum(a) /\ IsNum(b)
    THEN IF b.n = 0
         THEN IF a.n = 0 THEN NaN ELSE Inf(Sign(a.n))
         ELSE Num((a.n * Scale) \div b.n)
    ELSE IF a.k = "num" /\ b.k = "inf" THEN Num(0)
    ELSE NaN

\* np.abs
FAbs(a) == IF IsNum(a) THEN Num(Abs(a.n)) ELSE IF a.k = "inf" THEN Inf(1) ELSE a

\* a > x and a < x for a float a and a constant x; a comparison with nan is False
FGt(a, x) == (IsNum(a) /\ a.n > x) \/ (a.k = "inf" /\ a.n = 1)
FLt(a, x) == (IsNum(a) /\ a.n < x) \/ (a.k = "inf" /\ a.n = -1)

\* .astype(int) of a boolean
AsInt(b) == Num(IF b THEN Scale ELSE 0)

\* the integer square root
ISqrt(v) == CHOOSE r \in 0..v : r * r <= v /\ (r + 1) * (r + 1) > v

(***************************************************************************)
(* DataFrames.                                                             *)
(***************************************************************************)
\* pd.DataFrame()
EmptyFrame == [cols |-> <<>>, col |-> <<>>, n |-> 0]

\* df.empty
IsEmpty(df) == df.n = 0 \/ Len(df.cols) = 0

ColSet(df) == {df.cols[i] : i \in 1..Len(df.cols)}

\* a sequence, and a function, given by a rule, evaluated once
Explicit(s) == s \o <<>>
ExplicitFn(f) == f @@ <<>>

\* df[name] = values: a new column goes last, an existing one keeps its place
SetCol(df, name, values) ==
    [df EXCEPT !.cols = IF name \in ColSet(df) THEN @ ELSE Append(@, name),
               !.col = (name :> Explicit(values)) @@ @]

\* df[name] = x for a scalar x
SetScalar(df, name, x) == SetCol(df, name, [i \in 1..df.n |-> x])

(***************************************************************************)
(* FeatureConfig.                                                          *)
(***************************************************************************)
\* an optional argument: None, or a value
None == [none |-> TRUE, v |-> <<>>]
Some(x) == [none |-> FALSE, v |-> x]

\* FeatureConfig.__post_init__: a list left None gets its default; nothing
\* else is looked at
PostInit(c) ==
    [c EXCEPT
       !.aggregation_windows =
           IF c.aggregation_windows.none
           THEN Some(<<"1H", "3H", "6H", "12H", "24H">>) ELSE @,
       !.sensor_types =
           IF c.sensor_types.none
           THEN Some(<<"Temperature", "pH", "DissolvedOxygen", "Salinity">>)
           ELSE @]

\* AquacultureFeatureEngineer.__init__ keeps the configuration as it is given
\* (the engine and the redis client connect lazily: no I/O here)
NewEngineer(c) == PostInit(c)

\* the configurations engineers are constructed with
ConfigInputs ==
    { \* 3-hour windows, the default sensor types
      [lookback_hours |-> 7, aggregation_windows |-> Some(<<"3H">>),
       sensor_types |-> None, include_seasonal |-> TRUE,
       include_lag_features |-> TRUE, max_lag_hours |-> 6],
      \* the default windows, salinity only
      [lookback_hours |-> 7, aggregation_windows |-> None,
       sensor_types |-> Some(<<"Salinity">>), include_seasonal |-> FALSE,
       include_lag_features |-> FALSE, max_lag_hours |-> 6],
      \* malformed: no sensor type
      [lookback_hours |-> 7, aggregation_windows |-> Some(<<"3H">>),
       sensor_types |-> Some(<<>>), include_seasonal |-> TRUE,
       include_lag_features |-> TRUE, max_lag_hours |-> 6],
      \* malformed: a lookback that is not positive
      [lookback_hours |-> 0, aggregation_windows |-> Some(<<"3H">>),
       sensor_types |-> None, include_seasonal |-> TRUE,
       include_lag_features |-> TRUE, max_lag_hours |-> 6] }

\* '3H' -> 3: the hours of a window's offset string
WindowHours(w) ==
    CASE w = "1H" -> 1 [] w = "3H" -> 3 [] w = "6H" -> 6
      [] w = "12H" -> 12 [] w = "24H" -> 24

\* str(n) for the lag hours
DecStr(n) ==
    LET d == <<"0", "1", "2", "3", "4", "5", "6", "7", "8", "9">>
    IN IF n < 10 THEN d[n + 1] ELSE d[(n \div 10) + 1] \o d[(n % 10) + 1]

\* str.lower
Lower(s) ==
    LET up == "ABCDEFGHIJKLMNOPQRSTUVWXYZ"
        lo == "abcdefghijklmnopqrstuvwxyz"
        ch(i) == LET c == SubSeq(s, i, i)
                     at == {j \in 1..26 : SubSeq(up, j, j) = c}
                 IN IF at = {} THEN c
                    ELSE LET j == CHOOSE x \in at : TRUE IN SubSeq(lo, j, j)
        low[i \in 0..Len(s)] == IF i = 0 THEN "" ELSE low[i - 1] \o ch(i)
    IN low[Len(s)]

\* s.startswith(p)
StartsWith(s, p) == Len(s) >= Len(p) /\ SubSeq(s, 1, Len(p)) = p

\* s.split('_')[-1]
LastPart(s) ==
    LET at == {i \in 1..Len(s) : SubSeq(s, i, i) = "_"}
    IN IF at = {} THEN s
       ELSE SubSeq(s, (CHOOSE i \in at : \A j \in at : j <= i) + 1, Len(s))

(***************************************************************************)
(* The stores the engineer reads.                                          *)
(***************************************************************************)
Tanks == {"tankA", "tankB"}

\* the instants calls are made for: 07:00, 08:00 and 09:00
TargetTimes == {420, 480, 540}

Reading(t, type, value, quality) ==
    [time |-> t, sensor_id |-> "s-" \o type, sensor_type |-> type,
     value |-> value, quality_score |-> quality]

\* what a tank's part of sensor_data.readings may hold, in (time,
\* sensor_type) order:
\*  "none"  nothing;
\*  "short" five readings, 5 minutes apart from 06:35, of salinity and of a
\*          constant temperature 20.0, the first temperature reading taken
\*          twice;
\*  "long"  85 readings, 5 minutes apart from 00:00, of dissolved oxygen
\*          and of temperature, and one pH reading of quality 0.5.
DataNames == {"none", "short", "long"}

Data(name) ==
    CASE name = "none" -> <<>>
      [] name = "short" ->
           [i \in 1..11 |->
              IF i = 1 THEN Reading(395, "Salinity", 3400, 90)
              ELSE IF i = 2 THEN Reading(395, "Temperature", 1900, 90)
              ELSE IF i = 3 THEN Reading(395, "Temperature", 2100, 90)
              ELSE LET k == 1 + ((i - 4) \div 2)
                   IN IF i % 2 = 0
                      THEN Reading(395 + 5 * k, "Salinity",
                                   3400 + 10 * (k % 3), 90)
                      ELSE Reading(395 + 5 * k, "Temperature", 2000, 90)]
      [] name = "long" ->
           [i \in 1..171 |->
              IF i = 3 THEN Reading(0, "pH", 720, 50)
              ELSE LET j == IF i < 3 THEN i ELSE i - 1
                       k == (j - 1) \div 2
                   IN IF j % 2 = 1
                      THEN Reading(5 * k, "DissolvedOxygen",
                                   600 + 10 * ((3 * k) % 5), 95)
                      ELSE Reading(5 * k, "Temperature",
                                   2000 + 10 * ((7 * k) % 13), 95)]

\* sensor_data.sensors, joined to every reading
SensorInfo(type) ==
    [model |-> "M-" \o type, manufacturer |-> "AquaSense", accuracy |-> 10,
     min_value |-> 0, max_value |-> 10000]

\* sensor_data.tanks: tankA has a row, tankB has none
TankFound(tank) == tank = "tankA"

\* location and optimal_parameters are the parsed JSON columns: a mapping,
\* and the (param, optimal value) items in order; an empty (or NULL) column
\* is the empty one
TankRow(tank) ==
    [capacity_value |-> 500000, capacity_unit |-> "L",
     tank_type |-> "grow-out",
     location |-> [key \in {"building", "room"} |->
                     IF key = "building" THEN "B1" ELSE "R12"],
     optimal_parameters |->
        <<[param |-> "temperature_mean_3H", value |-> 2200],
          [param |-> "turbidity", value |-> 500]>>]

\* the indices from i up to n that satisfy keep, in order
SelectIdx(n, keep(_), i) == SelectSeq([j \in 1..(n - i + 1) |-> j + i - 1], keep)

\* the rows of a frame, or the elements of a sequence, chosen by keep
Pick(s, keep(_)) ==
    LET idx == SelectIdx(Len(s), LAMBDA i : keep(s[i]), 1)
    IN [i \in 1..Len(idx) |-> s[idx[i]]]

\* the quality a reading needs to be extracted: 0.7
MinQuality == 70

\* the query without the lower end of its window
QueryRowsUpToEnd(held, start_time, end_time) ==
    Pick(held, LAMBDA r : r.time <= end_time /\ r.quality_score >= MinQuality)

\* extract_sensor_data: the tank's readings with start_time <= time <=
\* end_time and quality_score >= 0.7, ordered by time and sensor type, as a
\* frame
QueryRows(held, start_time, end_time) ==
    Pick(held, LAMBDA r : r.time >= start_time /\ r.time <= end_time
                          /\ r.quality_score >= MinQuality)

extract_sensor_data(held, tank_id, start_time, end_time) ==
    LET rows == QueryRows(held, start_time, end_time)
        n == Len(rows)
        column(c) ==
            [i \in 1..n |->
               CASE c = "time" -> Ts(rows[i].time)
                 [] c = "sensor_id" -> Str(rows[i].sensor_id)
                 [] c = "tank_id" -> Str(tank_id)
                 [] c = "sensor_type" -> Str(rows[i].sensor_type)
                 [] c = "value" -> Num(rows[i].value)
                 [] c = "quality_score" -> Num(rows[i].quality_score)
                 [] c = "model" -> Str(SensorInfo(rows[i].sensor_type).model)
                 [] c = "manufacturer" ->
                      Str(SensorInfo(rows[i].sensor_type).manufacturer)
                 [] c = "accuracy" -> Num(SensorInfo(rows[i].sensor_type).accuracy)
                 [] c = "min_value" -> Num(SensorInfo(rows[i].sensor_type).min_value)
                 [] c = "max_value" -> Num(SensorInfo(rows[i].sensor_type).max_value)]
        cols == <<"time", "sensor_id", "tank_id", "sensor_type", "value",
                  "quality_score", "model", "manufacturer", "accuracy",
                  "min_value", "max_value">>
    IN [cols |-> cols,
        col |-> [c \in {cols[i] : i \in 1..Len(cols)} |-> column(c)],
        n |-> n]

(***************************************************************************)
(* create_time_features.                                                   *)
(***************************************************************************)
\* minute 0 is 00:00 of 1 January, a Monday, of a common year
DayMinutes == 1440

\* .dt.hour, .dt.dayofweek, .dt.month, .dt.quarter
HourOf(t) == (t \div HourMinutes) % 24
DayOfWeek(t) == (t \div DayMinutes) % 7
MonthOf(t) ==
    LET day == (t \div DayMinutes) % 365
        first == <<0, 31, 59, 90, 120, 151, 181, 212, 243, 273, 304, 334>>
    IN CHOOSE m \in 1..12 : first[m] <= day /\ (m = 12 \/ day < first[m + 1])
QuarterOf(t) == ((MonthOf(t) - 1) \div 3) + 1

\* np.sin(2 pi k / 24), np.cos(2 pi k / 24), and those of k/7 and of k/12;
\* the month is 1..12
HourSin == <<0, 26, 50, 71, 87, 97, 100, 97, 87, 71, 50, 26,
             0, -26, -50, -71, -87, -97, -100, -97, -87, -71, -50, -26>>
HourCos == <<100, 97, 87, 71, 50, 26, 0, -26, -50, -71, -87, -97,
             -100, -97, -87, -71, -50, -26, 0, 26, 50, 71, 87, 97>>
DaySin == <<0, 78, 97, 43, -43, -97, -78>>
DayCos == <<100, 62, -22, -90, -90, -22, 62>>
MonthSin == <<50, 87, 100, 87, 50, 0, -50, -87, -100, -87, -50, 0>>
MonthCos == <<87, 50, 0, -50, -87, -100, -87, -50, 0, 50, 87, 100>>

SeasonOf(m) ==
    IF m \in {12, 1, 2} THEN "winter" ELSE IF m \in {3, 4, 5} THEN "spring"
    ELSE IF m \in {6, 7, 8} THEN "summer" ELSE "autumn"

TempSeasonFactor == <<10, 30, 60, 80, 90, 100, 100, 100, 80, 60, 40, 20>>

\* the columns create_time_features adds, in order
TimeFeatureCols(cfg) ==
    <<"hour", "day_of_week", "month", "quarter", "hour_sin", "hour_cos",
      "day_sin", "day_cos", "month_sin", "month_cos", "is_weekend",
      "is_night", "is_feeding_time">>
    \o (IF cfg.include_seasonal THEN <<"season", "temp_season_factor">>
        ELSE <<>>)

TimeFeature(c, t) ==
    CASE c = "hour" -> Num(HourOf(t) * Scale)
      [] c = "day_of_week" -> Num(DayOfWeek(t) * Scale)
      [] c = "month" -> Num(MonthOf(t) * Scale)
      [] c = "quarter" -> Num(QuarterOf(t) * Scale)
      [] c = "hour_sin" -> Num(HourSin[HourOf(t) + 1])
      [] c = "hour_cos" -> Num(HourCos[HourOf(t) + 1])
      [] c = "day_sin" -> Num(DaySin[DayOfWeek(t) + 1])
      [] c = "day_cos" -> Num(DayCos[DayOfWeek(t) + 1])
      [] c = "month_sin" -> Num(MonthSin[MonthOf(t)])
      [] c = "month_cos" -> Num(MonthCos[MonthOf(t)])
      [] c = "is_weekend" -> Bool(DayOfWeek(t) \in {5, 6})
      [] c = "is_night" -> Bool(HourOf(t) \in (22..23) \cup (0..5))
      [] c = "is_feeding_time" -> Bool(HourOf(t) \in {8, 12, 18})
      [] c = "season" -> Str(SeasonOf(MonthOf(t)))
      [] c = "temp_season_factor" -> Num(TempSeasonFactor[MonthOf(t)])

\* create_time_features: a copy of df with the time columns added
create_time_features(cfg, df) ==
    LET added == TimeFeatureCols(cfg)
        names == {added[i] : i \in 1..Len(added)}
    IN [cols |-> df.cols \o added,
        col |-> [c \in ColSet(df) \cup names |->
                   IF c \in names
                   THEN [i \in 1..df.n |-> TimeFeature(c, df.col["time"][i].n)]
                   ELSE df.col[c]],
        n |-> df.n]

(***************************************************************************)
(* create_sensor_features: the pivoted series and its rolling windows.     *)
(* A series is a sequence of [time, value] with increasing times.          *)
(***************************************************************************)
\* the sum of f over lo..hi
RECURSIVE SumTo(_, _, _)
SumTo(f(_), lo, hi) ==
    IF lo > hi THEN 0
    ELSE IF lo = hi THEN f(lo)
    ELSE LET mid == (lo + hi) \div 2
         IN SumTo(f, lo, mid) + SumTo(f, mid + 1, hi)

\* pivot_table(index='time', values='value', aggfunc='mean'), then ffill and
\* bfill (which find nothing to fill): one row per distinct time with the
\* mean of the values read at that time
Pivot(rows) ==
    LET n == Len(rows)
        firsts == SelectIdx(n, LAMBDA i : i = 1 \/ rows[i - 1].time # rows[i].time, 1)
        m == Len(firsts)
        last(k) == IF k = m THEN n ELSE firsts[k + 1] - 1
    IN Explicit([k \in 1..m |->
          [time |-> rows[firsts[k]].time,
           value |-> SumTo(LAMBDA i : rows[i].value, firsts[k], last(k))
                        \div (last(k) - firsts[k] + 1)]])

\* rolling(window): the rows of the window that ends at row i are those
\* later than time[i] - window; WinLo is the first of them
WinLo(P, i, hours) ==
    CHOOSE j \in 1..i :
        /\ P[j].time > P[i].time - hours * HourMinutes
        /\ (j = 1 \/ P[j - 1].time <= P[i].time - hours * HourMinutes)

\* rolling.mean()
RollMean(P, i, hours) ==
    LET lo == WinLo(P, i, hours)
    IN Num(P[lo].value
           + (SumTo(LAMBDA j : P[j].value - P[lo].value, lo, i) \div (i - lo + 1)))

\* rolling.std(): the sample standard deviation (ddof=1), NaN for a window of
\* one row
RollStd(P, i, hours) ==
    LET lo == WinLo(P, i, hours)
        n == i - lo + 1
        s1 == SumTo(LAMBDA j : P[j].value - P[lo].value, lo, i)
        s2 == SumTo(LAMBDA j : (P[j].value - P[lo].value) * (P[j].value - P[lo].value),
                    lo, i)
    IN IF n < 2 THEN NaN ELSE Num(ISqrt((n * s2 - s1 * s1) \div (n * (n - 1))))

\* rolling.min(), rolling.max()
RollMin(P, i, hours) ==
    LET lo == WinLo(P, i, hours)
    IN Num(P[CHOOSE j \in lo..i : \A l \in lo..i : P[j].value <= P[l].value].value)

RollMax(P, i, hours) ==
    LET lo == WinLo(P, i, hours)
    IN Num(P[CHOOSE j \in lo..i : \A l \in lo..i : P[j].value >= P[l].value].value)

\* the k-th smallest value (k from 0) of rows lo..i
KthSmallest(P, lo, i, k) ==
    LET below(v) == Cardinality({l \in lo..i : P[l].value < v})
        upto(v) == Cardinality({l \in lo..i : P[l].value <= v})
    IN P[CHOOSE j \in lo..i :
            below(P[j].value) <= k /\ k < upto(P[j].value)].value

\* rolling.quantile(num/4), by linear interpolation
RollQuantile(P, i, hours, num) ==
    LET lo == WinLo(P, i, hours)
        n == i - lo + 1
        at == (num * (n - 1)) \div 4
        part == (num * (n - 1)) % 4
        a == KthSmallest(P, lo, i, at)
    IN IF part = 0 THEN Num(a)
       ELSE Num(a + (((KthSmallest(P, lo, i, at + 1) - a) * part) \div 4))

\* sensor_pivot.diff(periods) and sensor_pivot.shift(periods)
Diff(P, i, periods) ==
    IF i - periods < 1 THEN NaN ELSE Num(P[i].value - P[i - periods].value)

Shift(P, i, periods) == IF i - periods < 1 THEN NaN ELSE Num(P[i - periods].value)

\* 5-minute samples in an hour: the rate-of-change and lag horizons
SamplesPerHour == 12

\* z-scores over the 24-hour window
ZScoreHours == 24

ZScore(P, i) ==
    FDiv(FSub(Num(P[i].value), RollMean(P, i, ZScoreHours)),
         RollStd(P, i, ZScoreHours))

\* the columns of one window for one sensor, in the order they are made
WindowStats == <<"mean", "std", "min", "max", "range", "q25", "q75", "iqr",
                 "trend", "cv">>

WindowStat(stat, P, i, hours) ==
    CASE stat = "mean" -> RollMean(P, i, hours)
      [] stat = "std" -> RollStd(P, i, hours)
      [] stat = "min" -> RollMin(P, i, hours)
      [] stat = "max" -> RollMax(P, i, hours)
      [] stat = "range" -> FSub(RollMax(P, i, hours), RollMin(P, i, hours))
      [] stat = "q25" -> RollQuantile(P, i, hours, 1)
      [] stat = "q75" -> RollQuantile(P, i, hours, 3)
      [] stat = "iqr" -> FSub(RollQuantile(P, i, hours, 3),
                              RollQuantile(P, i, hours, 1))
      [] stat = "trend" -> FSub(Num(P[i].value), RollMean(P, i, hours))
      [] stat = "cv" -> FDiv(RollStd(P, i, hours), RollMean(P, i, hours))

(***************************************************************************)
(* create_sensor_features: the feature frame.  While it is built the frame *)
(* carries its index (the times of its rows; indexed is FALSE until the    *)
(* first column sets it) and the exception raised, if any.                 *)
(***************************************************************************)
NewFeatures ==
    [cols |-> <<>>, col |-> <<>>, n |-> 0, index |-> <<>>, indexed |-> FALSE,
     error |-> ""]

\* features_df[name] = <a column on the index times>: the first assignment
\* gives the frame the column's index, a later one is aligned to the frame's
\* index (rows of other times are dropped, missing rows are NaN)
AssignSeries(fdf, name, times, values) ==
    IF ~fdf.indexed
    THEN [fdf EXCEPT !.cols = <<name>>, !.col = name :> values,
                     !.n = Len(times), !.index = times, !.indexed = TRUE]
    ELSE LET aligned ==
                 IF times = fdf.index THEN values
                 ELSE Explicit([i \in 1..fdf.n |->
                         LET at == {j \in 1..Len(times) : times[j] = fdf.index[i]}
                         IN IF at = {} THEN NaN
                            ELSE values[CHOOSE j \in at : TRUE]])
         IN [fdf EXCEPT
               !.cols = IF name \in ColSet(fdf) THEN @ ELSE Append(@, name),
               !.col = (name :> aligned) @@ @]

\* one assignment of create_sensor_features: the column it makes, how (op),
\* and the operands: a name (s) and a number (a)
Step(name, op, s, a) == [name |-> name, op |-> op, s |-> s, a |-> a]

\* the steps that read a column of features_df (a KeyError when it is not
\* there); the others read sensor_pivot
ReadsFrame(step) == step.op \in {"col_diff", "abs_gt", "col_gt", "col_lt", "stability"}

\* the value a step computes at row i, of the series or of the frame
StepValue(step, P, src, i) ==
    CASE step.op = "stat" -> WindowStat(step.s, P, i, step.a)
      [] step.op = "diff" -> Diff(P, i, step.a)
      [] step.op = "shift" -> Shift(P, i, step.a)
      [] step.op = "zscore" -> ZScore(P, i)
      [] step.op = "is_anomaly" -> AsInt(FGt(FAbs(ZScore(P, i)), 3 * Scale))
      [] step.op = "lt" -> AsInt(P[i].value < step.a)
      [] step.op = "gt" -> AsInt(P[i].value > step.a)
      [] step.op = "col_diff" -> IF i = 1 THEN NaN ELSE FSub(src[i], src[i - 1])
      [] step.op = "abs_gt" -> AsInt(FGt(FAbs(src[i]), step.a))
      [] step.op = "col_gt" -> AsInt(FGt(src[i], step.a))
      [] step.op = "col_lt" -> AsInt(FLt(src[i], step.a))
      [] step.op = "stability" -> FDiv(Num(Scale), FSub(src[i], Num(-Scale)))

ApplyStep(fdf, P, step) ==
    IF fdf.error # "" THEN fdf
    ELSE IF ReadsFrame(step)
    THEN IF step.s \notin ColSet(fdf) THEN [fdf EXCEPT !.error = "KeyError"]
         ELSE LET src == fdf.col[step.s]
              IN [fdf EXCEPT
                    !.cols = IF step.name \in ColSet(fdf) THEN @
                             ELSE Append(@, step.name),
                    !.col = (step.name :>
                               Explicit([i \in 1..fdf.n |->
                                           StepValue(step, P, src, i)])) @@ @]
    ELSE AssignSeries(fdf, step.name,
                      Explicit([i \in 1..Len(P) |-> P[i].time]),
                      Explicit([i \in 1..Len(P) |-> StepValue(step, P, <<>>, i)]))

\* the steps lo..hi applied in order (halving keeps the evaluation shallow)
RECURSIVE ApplyRange(_, _, _, _, _)
ApplyRange(fdf, P, steps, lo, hi) ==
    IF fdf.error # "" \/ lo > hi THEN fdf
    ELSE IF lo = hi THEN ApplyStep(fdf, P, steps[lo])
    ELSE LET mid == (lo + hi) \div 2
         IN ApplyRange(ApplyRange(fdf, P, steps, lo, mid), P, steps, mid + 1, hi)

ApplySteps(fdf, P, steps) == ApplyRange(fdf, P, steps, 1, Len(steps))

\* the assignments made for one sensor type, in order
SensorSteps(cfg, sensor_type) ==
    LET sn == Lower(sensor_type)
        windows == cfg.aggregation_windows.v
        nstat == Len(WindowStats)
        stats == [k \in 1..(Len(windows) * nstat) |->
                    LET w == windows[((k - 1) \div nstat) + 1]
                        stat == WindowStats[((k - 1) % nstat) + 1]
                    IN Step(sn \o "_" \o stat \o "_" \o w, "stat", stat,
                            WindowHours(w))]
        roc == <<Step(sn \o "_roc_1h", "diff", "", SamplesPerHour),
                 Step(sn \o "_roc_3h", "diff", "", 3 * SamplesPerHour),
                 Step(sn \o "_roc_6h", "diff", "", 6 * SamplesPerHour),
                 Step(sn \o "_acceleration", "col_diff", sn \o "_roc_1h", 0)>>
        lags == IF cfg.include_lag_features
                THEN [h \in 1..cfg.max_lag_hours |->
                        Step(sn \o "_lag_" \o DecStr(h) \o "h", "shift", "",
                             h * SamplesPerHour)]
                ELSE <<>>
        anomaly == <<Step(sn \o "_zscore", "zscore", "", 0),
                     Step(sn \o "_is_anomaly", "is_anomaly", "", 0)>>
        own == CASE sensor_type = "Temperature" ->
                      <<Step("temp_shock_risk", "abs_gt", sn \o "_roc_1h", 200),
                        Step("thermal_stratification", "col_gt",
                             sn \o "_std_3H", 150)>>
                 [] sensor_type = "pH" ->
                      <<Step("ph_stability", "stability", sn \o "_std_6H", 0),
                        Step("ph_stress_low", "lt", "", 650),
                        Step("ph_stress_high", "gt", "", 850)>>
                 [] sensor_type = "DissolvedOxygen" ->
                      <<Step("oxygen_depletion_risk", "lt", "", 400),
                        Step("oxygen_critical", "lt", "", 200),
                        Step("oxygen_declining_trend", "col_lt",
                             sn \o "_trend_3H", -50)>>
                 [] OTHER -> <<>>
    IN stats \o roc \o lags \o anomaly \o own

\* the rows of the raw frame read for one sensor type, as [time, value]
SensorRows(df, sensor_type) ==
    LET idx == SelectIdx(df.n, LAMBDA i : df.col["sensor_type"][i].s = sensor_type, 1)
    IN Explicit([k \in 1..Len(idx) |->
          [time |-> df.col["time"][idx[k]].n, value |-> df.col["value"][idx[k]].n]])

\* the loop over config.sensor_types: a type with no reading is skipped
RECURSIVE SensorLoop(_, _, _, _)
SensorLoop(cfg, df, fdf, k) ==
    IF fdf.error # "" \/ k > Len(cfg.sensor_types.v) THEN fdf
    ELSE LET sensor_type == cfg.sensor_types.v[k]
             sensor_data == SensorRows(df, sensor_type)
         IN IF Len(sensor_data) = 0 THEN SensorLoop(cfg, df, fdf, k + 1)
            ELSE SensorLoop(cfg, df,
                            ApplySteps(fdf, Pivot(sensor_data),
                                       SensorSteps(cfg, sensor_type)),
                            k + 1)

\* a / (b + 1e-6): the epsilon is below the fixed-point unit, and only
\* shows when b is 0
FDivEps(a, b) ==
    IF IsNum(a) /\ IsNum(b)
    THEN IF b.n = 0 THEN Num(a.n * 1000000) ELSE Num((a.n * Scale) \div b.n)
    ELSE FDiv(a, b)

\* the cross-sensor features: the temperature and dissolved-oxygen mean
\* columns are paired in column order
RECURSIVE RatioLoop(_, _, _, _)
RatioLoop(fdf, temp_cols, oxygen_cols, k) ==
    IF fdf.n < 0 \/ k > Len(temp_cols) \/ k > Len(oxygen_cols) THEN fdf
    ELSE LET name == "temp_oxygen_ratio_" \o LastPart(temp_cols[k])
             values == Explicit([i \in 1..fdf.n |->
                          FDivEps(fdf.col[temp_cols[k]][i],
                                  fdf.col[oxygen_cols[k]][i])])
         IN RatioLoop([fdf EXCEPT
                          !.cols = IF name \in ColSet(fdf) THEN @
                                   ELSE Append(@, name),
                          !.col = (name :> values) @@ @],
                      temp_cols, oxygen_cols, k + 1)

CrossSensor(cfg, fdf) ==
    LET lowered == {Lower(cfg.sensor_types.v[i]) : i \in 1..Len(cfg.sensor_types.v)}
        temp_cols == Pick(fdf.cols, LAMBDA c : StartsWith(c, "temperature_mean"))
        oxygen_cols == Pick(fdf.cols, LAMBDA c : StartsWith(c, "dissolvedoxygen_mean"))
    IN IF fdf.error = "" /\ "temperature" \in lowered
          /\ "dissolvedoxygen" \in lowered
          /\ Len(temp_cols) > 0 /\ Len(oxygen_cols) > 0
       THEN RatioLoop(fdf, temp_cols, oxygen_cols, 1)
       ELSE fdf

\* features_df.reset_index(): the index becomes the first column, named
\* 'time' after the pivot's index, or 'index' when no column was ever set
ResetIndex(fdf) ==
    IF fdf.indexed
    THEN [cols |-> <<"time">> \o fdf.cols,
          col |-> ("time" :> Explicit([i \in 1..fdf.n |-> Ts(fdf.index[i])]))
                  @@ fdf.col,
          n |-> fdf.n, error |-> fdf.error]
    ELSE [cols |-> <<"index">>, col |-> "index" :> <<>>, n |-> 0,
          error |-> fdf.error]

\* create_sensor_features: only the columns sensor_type, time and value of
\* df are read; the result starts from an empty frame
create_sensor_features(cfg, df) ==
    ResetIndex(CrossSensor(cfg, SensorLoop(cfg, df, NewFeatures, 1)))

(***************************************************************************)
(* create_tank_context_features.                                           *)
(***************************************************************************)
\* the seeds a process may hash strings with
HashSeeds == {0}

\* hash(s): fixed within a process, 0 for the empty string
StrHash(seed, s) == IF s = "" THEN 0 ELSE (seed + 1) * (7919 * Len(s) + 104729)

\* dict.get(key, '')
Get(d, key) == IF key \in DOMAIN d THEN d[key] ELSE ""

\* the loop over optimal.items(): a parameter that names a column gets its
\* deviation and within-optimal columns
RECURSIVE OptimalLoop(_, _, _)
OptimalLoop(df, items, k) ==
    IF df.n < 0 \/ k > Len(items) THEN df
    ELSE LET param == items[k].param
             optimal_value == Num(items[k].value)
             deviation == Explicit([i \in 1..df.n |->
                             FAbs(FSub(df.col[param][i], optimal_value))])
             within == Explicit([i \in 1..df.n |->
                          AsInt(FLt(deviation[i], items[k].value \div 10))])
         IN IF param \in ColSet(df)
            THEN OptimalLoop(SetCol(SetCol(df, param \o "_deviation", deviation),
                                    param \o "_within_optimal", within),
                             items, k + 1)
            ELSE OptimalLoop(df, items, k + 1)

\* create_tank_context_features, after the tank's row has been read: a tank
\* that is not found leaves df as it is
create_tank_context_features(seed, tank_id, df) ==
    IF ~TankFound(tank_id) THEN df
    ELSE LET tank_data == TankRow(tank_id)
             location == tank_data.location
             d1 == SetScalar(df, "tank_capacity", Num(tank_data.capacity_value))
             d2 == SetScalar(d1, "tank_type_encoded",
                             Num((StrHash(seed, tank_data.tank_type) % 1000) * Scale))
             d3 == SetScalar(d2, "building_encoded",
                             Num((StrHash(seed, Get(location, "building")) % 100) * Scale))
             d4 == SetScalar(d3, "room_encoded",
                             Num((StrHash(seed, Get(location, "room")) % 100) * Scale))
         IN OptimalLoop(d4, tank_data.optimal_parameters, 1)

(***************************************************************************)
(* The imputation step: SimpleImputer(strategy='median').fit_transform on  *)
(* the numeric columns, assigned back to them.                             *)
(***************************************************************************)
\* select_dtypes(include=[np.number]).columns
NumericColumns(df) ==
    Pick(df.cols, LAMBDA c : df.n = 0 \/ IsNumeric(df.col[c][1]))

\* the median of the observed (not NaN) values of a column
Median(values) ==
    LET obs == {i \in 1..Len(values) : ~IsNaN(values[i])}
        m == Cardinality(obs)
        below(v) == Cardinality({l \in obs : values[l].n < v})
        upto(v) == Cardinality({l \in obs : values[l].n <= v})
        kth(k) == values[CHOOSE j \in obs :
                            below(values[j].n) <= k /\ k < upto(values[j].n)].n
    IN IF m % 2 = 1 THEN kth((m - 1) \div 2)
       ELSE (kth((m \div 2) - 1) + kth(m \div 2)) \div 2

\* the imputer drops a column with no observed value
ImputerKeeps(values) == \E i \in 1..Len(values) : ~IsNaN(values[i])

\* imputer.fit_transform(X) for one column that has an observed value
ImputeColumn(values) ==
    IF \A i \in 1..Len(values) : ~IsNaN(values[i]) THEN values
    ELSE LET med == Num(Median(values))
         IN Explicit([i \in 1..Len(values) |->
                        IF IsNaN(values[i]) THEN med ELSE values[i]])

\* lines 340-342: a ValueError when X has no row or no column or holds an
\* infinity, and when the imputer returns fewer columns than were selected
Impute(df) ==
    LET numeric_columns == NumericColumns(df)
        numeric == {numeric_columns[i] : i \in 1..Len(numeric_columns)}
    IN IF \/ df.n = 0
          \/ numeric = {}
          \/ \E c \in numeric : \E i \in 1..df.n : df.col[c][i].k = "inf"
          \/ \E c \in numeric : ~ImputerKeeps(df.col[c])
       THEN [df |-> df, error |-> "ValueError"]
       ELSE [df |-> [df EXCEPT !.col =
                        ExplicitFn([c \in ColSet(df) |->
                           IF c \in numeric THEN ImputeColumn(df.col[c])
                           ELSE df.col[c]])],
             error |-> ""]

(***************************************************************************)
(* The cache's serialisation: DataFrame.to_json and pd.read_json.          *)
(***************************************************************************)
\* the float nearest to x that to_json writes
JsonRound(x) ==
    LET unit == Scale \div JsonScale
    IN ((x + (unit \div 2)) \div unit) * unit

\* milliseconds of a minute: to_json writes a datetime as epoch milliseconds
MinuteMillis == 60000

\* one cell as a JSON value
JsonValue(c) ==
    CASE c.k = "num" -> Num(JsonRound(c.n))
      [] c.k = "ts" -> Whole(c.n * MinuteMillis)
      [] c.k \in {"nan", "inf"} -> [k |-> "null", n |-> 0, s |-> ""]
      [] OTHER -> c

\* final_features.to_json(): the document, column by column
to_json(df) ==
    [cols |-> df.cols,
     col |-> ExplicitFn([c \in ColSet(df) |->
                Explicit([i \in 1..df.n |-> JsonValue(df.col[c][i])])]),
     n |-> df.n]

EndsWith(s, p) ==
    Len(s) >= Len(p) /\ SubSeq(s, Len(s) - Len(p) + 1, Len(s)) = p

\* the column names read_json takes for dates
IsDateName(name) ==
    LET l == Lower(name)
    IN \/ EndsWith(l, "_at") \/ EndsWith(l, "_time")
       \/ l \in {"modified", "date", "datetime"}
       \/ StartsWith(l, "timestamp")

\* pd.read_json(document): null is NaN, and a number is made a datetime only
\* in a column whose name says it is one
read_json(doc) ==
    [cols |-> doc.cols,
     col |-> ExplicitFn([c \in ColSet(doc) |->
                LET dated == IsDateName(c)
                IN Explicit([i \in 1..doc.n |->
                      LET v == doc.col[c][i]
                      IN IF v.k = "null" THEN NaN
                         ELSE IF dated /\ v.k = "int" THEN Ts(v.n \div MinuteMillis)
                         ELSE v])]),
     n |-> doc.n]

(***************************************************************************)
(* engineer_features.                                                      *)
(***************************************************************************)
\* the engineers that can be constructed
Engineers == {NewEngineer(c) : c \in ConfigInputs}

Pad2(n) == IF n < 10 THEN "0" \o DecStr(n) ELSE DecStr(n)

\* datetime.isoformat(), for an instant of the year of minute 0
IsoFormat(t) ==
    LET day == t \div DayMinutes
        first == <<0, 31, 59, 90, 120, 151, 181, 212, 243, 273, 304, 334>>
        month == MonthOf(t)
    IN "2018-" \o Pad2(month) \o "-" \o Pad2(day - first[month] + 1) \o "T"
       \o Pad2(HourOf(t)) \o ":" \o Pad2(t % HourMinutes) \o ":00"

\* line 312
CacheKey(tank_id, target_time) ==
    "features:" \o tank_id \o ":" \o IsoFormat(target_time)

\* the expiry given to setex, in seconds
CacheTtl == 3600

\* lines 320-334 once the query has returned: whether it returned nothing,
\* the columns of the frame with the time features, and the sensor features
\* made from it.  create_sensor_features reads the columns time, sensor_type
\* and value only, so the stage is the same for every tank that holds the
\* same readings.
SensorStage(cfg, held, target_time) ==
    LET start_time == target_time - cfg.lookback_hours * HourMinutes
        end_time == target_time
        raw_data == extract_sensor_data(Data(held), "", start_time, end_time)
        df_with_time == create_time_features(cfg, raw_data)
    IN [raw_empty |-> IsEmpty(raw_data),
        time_cols |-> df_with_time.cols,
        sensor_features |->
            IF IsEmpty(raw_data) THEN [EmptyFrame EXCEPT !.n = 0] @@ [error |-> ""]
            ELSE create_sensor_features(cfg, df_with_time)]

\* SensorStage, evaluated once for each engineer, readings and instant
SensorStages ==
    [cfg \in Engineers, held \in DataNames, target_time \in TargetTimes |->
        SensorStage(cfg, held, target_time)]

\* lines 344-347: every row is tagged
Tag(df, tank_id, target_time) ==
    SetScalar(SetScalar(SetScalar(df, "tank_id", Str(tank_id)),
                        "feature_timestamp", Ts(target_time)),
              "feature_version", Str("v1.0"))

\* how lines 319-347 end, I/O failures aside: whether the query returned
\* nothing, the columns the time features gave, the exception raised and
\* where ("sensor": in create_sensor_features, before the tank is read;
\* "impute": in lines 340-342), the table made and its document (line 353)
Made(stage, error, error_at, final_features) ==
    [raw_empty |-> stage.raw_empty, time_cols |-> stage.time_cols,
     error |-> error, error_at |-> error_at,
     final_features |-> final_features,
     json |-> IF error = "" /\ ~stage.raw_empty THEN to_json(final_features)
              ELSE EmptyFrame]

\* lines 340-347, given what the imputer did
AfterImpute(stage, imputed, tank_id, target_time) ==
    IF imputed.error # "" THEN Made(stage, imputed.error, "impute", EmptyFrame)
    ELSE Made(stage, "", "", Tag(imputed.df, tank_id, target_time))

\* lines 326-347, given the sensor stage
AfterSensors(stage, seed, tank_id, target_time) ==
    IF stage.raw_empty THEN Made(stage, "", "", EmptyFrame)
    ELSE IF stage.sensor_features.error # ""
    THEN Made(stage, stage.sensor_features.error, "sensor", EmptyFrame)
    ELSE AfterImpute(stage,
                     Impute(create_tank_context_features(seed, tank_id,
                                [cols |-> stage.sensor_features.cols,
                                 col |-> stage.sensor_features.col,
                                 n |-> stage.sensor_features.n])),
                     tank_id, target_time)

\* lines 319-347 and the document of line 353
Pipeline(cfg, seed, held, tank_id, target_time) ==
    AfterSensors(SensorStages[cfg, held, target_time], seed, tank_id,
                 target_time)

\* Pipeline, evaluated once for each engineer, seed, readings, tank, instant
Pipelines ==
    [cfg \in Engineers, seed \in HashSeeds, held \in DataNames,
     tank_id \in Tanks, target_time \in TargetTimes |->
        Pipeline(cfg, seed, held, tank_id, target_time)]

\* the documents among the results of runs
DocumentsOf(runs) ==
    {runs[x].json :
        x \in {y \in DOMAIN runs : ~runs[y].raw_empty /\ runs[y].error = ""}}

\* read_json of every document the pipeline makes, evaluated once
Parsed == [doc \in DocumentsOf(Pipelines) |-> read_json(doc)]

\* pd.read_json(cached_features), line 316
Lookup(table, doc) == IF doc \in DOMAIN table THEN table[doc] ELSE read_json(doc)

ReadCached(doc) == Lookup(Parsed, doc)

\* the external calls that may fail
Faults == {"none", "cache_get", "raw_read", "metadata_read", "cache_set"}

\* redis get: the value under the key, if there is one that has not expired
CacheGet(entries, clock, key) ==
    IF key \in DOMAIN entries /\ clock < entries[key].expires
    THEN Some(entries[key].value) ELSE None

\* setex taking its time to live for milliseconds
CacheSetexMillis(entries, clock, key, ttl, value) ==
    (key :> [value |-> value, expires |-> clock + ttl \div 1000]) @@ entries

\* redis setex
CacheSetex(entries, clock, key, ttl, value) ==
    (key :> [value |-> value, expires |-> clock + ttl]) @@ entries

\* what a call of engineer_features does: how it ends (outcome), the table
\* it returns, the exception it raises, the external calls it issues in
\* order, and the cache it leaves
Done(outcome, table, error, io, entries) ==
    [outcome |-> outcome, table |-> table, error |-> error, io |-> io,
     cache |-> entries]

\* lines 313-358, given what the cache holds under the key
\* (cached_features) and what lines 319-347 make when no external call
\* fails (run).  fault names the external call that fails, should the call
\* get to it.
Engineer(cached_features, run, entries, clock, cache_key, fault) ==
    IF fault = "cache_get"
    THEN Done("raised", EmptyFrame, "ConnectionError", <<"cache_get">>, entries)
    ELSE IF ~cached_features.none
    THEN Done("hit", ReadCached(cached_features.v), "", <<"cache_get">>, entries)
    ELSE IF fault = "raw_read"
    THEN Done("raised", EmptyFrame, "OperationalError",
              <<"cache_get", "raw_read">>, entries)
    ELSE IF run.raw_empty
    THEN Done("empty", EmptyFrame, "", <<"cache_get", "raw_read">>, entries)
    ELSE IF run.error_at = "sensor"
    THEN Done("raised", EmptyFrame, run.error, <<"cache_get", "raw_read">>,
              entries)
    ELSE IF fault = "metadata_read"
    THEN Done("raised", EmptyFrame, "OperationalError",
              <<"cache_get", "raw_read", "metadata_read">>, entries)
    ELSE IF run.error_at = "impute"
    THEN Done("raised", EmptyFrame, run.error,
              <<"cache_get", "raw_read", "metadata_read">>, entries)
    ELSE IF fault = "cache_set"
    THEN Done("raised", EmptyFrame, "ConnectionError",
              <<"cache_get", "raw_read", "metadata_read", "cache_set">>,
              entries)
    ELSE Done("computed", run.final_features, "",
              <<"cache_get", "raw_read", "metadata_read", "cache_set">>,
              CacheSetex(entries, clock, cache_key, CacheTtl, run.json))

\* engineer_features(tank_id, target_time), lines 307-358, of the engineer
\* with configuration cfg, when the cache holds entries at time clock and
\* the tank holds the readings held
engineer_features(cfg, seed, entries, clock, held, tank_id, target_time, fault) ==
    Engineer(CacheGet(entries, clock, CacheKey(tank_id, target_time)),
             Pipelines[cfg, seed, held, tank_id, target_time],
             entries, clock, CacheKey(tank_id, target_time), fault)

(***************************************************************************)
(* The engineer, its cache and the stores.                                 *)
(***************************************************************************)
\* the instant single calls ask for
CallTimes == {420}

\* no call yet
NoReturn ==
    [op |-> "none", tank_id |-> "", target_time |-> 0, outcome |-> "",
     table |-> EmptyFrame, error |-> "", io |-> <<>>]

\* no batch running
NoBatch ==
    [pc |-> "idle", tank_ids |-> <<>>, start_time |-> 0, end_time |-> 0,
     interval_hours |-> 0, current_time |-> 0, tank |-> 1,
     all_features |-> <<>>, calls |-> <<>>, result |-> EmptyFrame]

\* an engineer has been constructed (lines 36-63): nothing is read or
\* written, the cache and the feature table are as the deployment left them
Init ==
    /\ config \in Engineers
    /\ hash_seed \in HashSeeds
    /\ now = 0
    /\ cache = <<>>
    /\ store \in [Tanks -> DataNames]
    /\ sink = <<>>
    /\ ret = NoReturn
    /\ batch = NoBatch

\* a call of engineer_features(tank_id, target_time), lines 307-358, ends
\* as r says
EngineerFeatures(r, tank_id, target_time) ==
    /\ cache' = r.cache
    /\ ret' = [op |-> "engineer_features", tank_id |-> tank_id,
               target_time |-> target_time, outcome |-> r.outcome,
               table |-> r.table, error |-> r.error, io |-> r.io]
    /\ UNCHANGED <<config, hash_seed, now, store, sink, batch>>

Call(tank_id, target_time, fault) ==
    EngineerFeatures(engineer_features(config, hash_seed, cache, now,
                                       store[tank_id], tank_id, target_time,
                                       fault),
                     tank_id, target_time)

\* time passes; redis drops the entries whose time to live is over
Tick ==
    /\ now < MaxTicks * TickSeconds
    /\ now' = now + TickSeconds
    /\ cache' = [key \in {k \in DOMAIN cache : now' < cache[k].expires} |->
                    cache[key]]
    /\ UNCHANGED <<config, hash_seed, store, sink, ret, batch>>

\* the sensors of a tank deliver: the readings table holds other readings
StoreChange(tank_id, held) ==
    /\ store[tank_id] # held
    /\ store' = [store EXCEPT ![tank_id] = held]
    /\ UNCHANGED <<config, hash_seed, now, cache, sink, ret, batch>>

Next ==
    \/ \E tank_id \in Tanks, target_time \in CallTimes, fault \in Faults :
          Call(tank_id, target_time, fault)
    \/ Tick
    \/ \E tank_id \in Tanks, held \in DataNames : StoreChange(tank_id, held)

Spec == Init /\ [][Next]_vars

(***************************************************************************)
(* batch_engineer_features, one unit of work at a time.                    *)
(***************************************************************************)
\* the arguments batches are called with: tank lists (one of them empty, one
\* naming a tank twice), (start, end) pairs (one of them empty), intervals
BatchTankLists == {<<>>, <<"tankA", "tankB">>, <<"tankB", "tankB">>}
BatchRanges == {<<420, 480>>, <<480, 420>>}
BatchIntervals == {0, 1, 2}

\* pd.concat(frames, ignore_index=True): the rows one after the other, under
\* the union of the columns in the order they first appear; a cell of a
\* column its frame lacks is NaN
RECURSIVE ConcatCols(_, _)
ConcatCols(frames, k) ==
    IF k = 0 THEN <<>>
    ELSE LET before == ConcatCols(frames, k - 1)
             seen == {before[i] : i \in 1..Len(before)}
         IN before \o SelectSeq(frames[k].cols, LAMBDA c : c \notin seen)

RECURSIVE ConcatColumn(_, _, _)
ConcatColumn(frames, c, k) ==
    IF k = 0 THEN <<>>
    ELSE ConcatColumn(frames, c, k - 1) \o
         (IF c \in ColSet(frames[k]) THEN frames[k].col[c]
          ELSE [i \in 1..frames[k].n |-> NaN])

Concat(frames) ==
    LET cols == ConcatCols(frames, Len(frames))
    IN [cols |-> cols,
        col |-> [c \in {cols[i] : i \in 1..Len(cols)} |->
                   ConcatColumn(frames, c, Len(frames))],
        n |-> Len(ConcatColumn(frames, "", Len(frames)))]


\* while current_time <= end_time, line 366
LoopCond(b) == b.current_time <= b.end_time

\* lines 363-365: the call is entered
BatchCall(tank_ids, start_time, end_time, interval_hours) ==
    /\ batch.pc = "idle"
    /\ batch' = [pc |-> "loop", tank_ids |-> tank_ids,
                 start_time |-> start_time, end_time |-> end_time,
                 interval_hours |-> interval_hours,
                 current_time |-> start_time, tank |-> 1,
                 all_features |-> <<>>, calls |-> <<>>, result |-> EmptyFrame]
    /\ UNCHANGED <<config, hash_seed, now, cache, store, sink, ret>>

\* lines 367-373: one pass of the inner loop.  Whatever engineer_features
\* raises is logged and dropped; a non-empty table is kept.  calls is the
\* history of the units of work: instant, tank, position in the list and
\* how the unit ended.
\* a unit of work without the try: what engineer_features raises ends the
\* batch
UnitAborts(r, tank_id) ==
    /\ cache' = r.cache
    /\ batch' =
         [batch EXCEPT
            !.pc = IF r.outcome = "raised" THEN "done" ELSE @,
            !.tank = @ + 1,
            !.all_features =
                IF r.outcome # "raised" /\ ~IsEmpty(r.table)
                THEN Append(@, r.table) ELSE @,
            !.calls = Append(@, [time |-> batch.current_time,
                                 tank_id |-> tank_id,
                                 pos |-> batch.tank,
                                 outcome |-> r.outcome])]
    /\ UNCHANGED <<config, hash_seed, now, store, sink, ret>>

Unit(r, tank_id) ==
    /\ cache' = r.cache
    /\ batch' =
         [batch EXCEPT
            !.tank = @ + 1,
            !.all_features =
                IF r.outcome # "raised" /\ ~IsEmpty(r.table)
                THEN Append(@, r.table) ELSE @,
            !.calls = Append(@, [time |-> batch.current_time,
                                 tank_id |-> tank_id,
                                 pos |-> batch.tank,
                                 outcome |-> r.outcome])]
    /\ UNCHANGED <<config, hash_seed, now, store, sink, ret>>

UnitOf(tank_id, fault) ==
    Unit(engineer_features(config, hash_seed, cache, now, store[tank_id],
                           tank_id, batch.current_time, fault),
         tank_id)

BatchUnit(fault) ==
    /\ batch.pc = "loop"
    /\ LoopCond(batch)
    /\ batch.tank <= Len(batch.tank_ids)
    /\ Len(batch.calls) < MaxCalls
    /\ UnitOf(batch.tank_ids[batch.tank], fault)

\* line 375: the inner loop is over, the instant moves on
BatchAdvance ==
    /\ batch.pc = "loop"
    /\ LoopCond(batch)
    /\ batch.tank > Len(batch.tank_ids)
    /\ batch' = [batch EXCEPT
                   !.current_time = @ + batch.interval_hours * HourMinutes,
                   !.tank = 1]
    /\ UNCHANGED <<config, hash_seed, now, cache, store, sink, ret>>

\* lines 377-380: the loop is over, the tables kept are concatenated
BatchReturn ==
    /\ batch.pc = "loop"
    /\ ~LoopCond(batch)
    /\ batch' = [batch EXCEPT
                   !.pc = "done",
                   !.result = IF Len(batch.all_features) > 0
                              THEN Concat(batch.all_features)
                              ELSE EmptyFrame]
    /\ UNCHANGED <<config, hash_seed, now, cache, store, sink, ret>>

NextBatch ==
    \/ \E tank_ids \in BatchTankLists, range \in BatchRanges,
          interval_hours \in BatchIntervals :
          BatchCall(tank_ids, range[1], range[2], interval_hours)
    \/ \E fault \in Faults : BatchUnit(fault)
    \/ BatchAdvance
    \/ BatchReturn

SpecBatch == Init /\ [][NextBatch]_vars

(***************************************************************************)
(* save_features_to_db.                                                    *)
(***************************************************************************)
\* lines 388-389: the columns that go into the features document
FeatureColumns(df) ==
    SelectSeq(df.cols, LAMBDA c :
                c \notin {"tank_id", "feature_timestamp", "feature_version"})

\* line 393: the cells of row i that are not missing, by column
RowFeatures(df, feature_columns, i) ==
    [c \in {feature_columns[k] : k \in 1..Len(feature_columns)}
            \cap {c \in ColSet(df) : ~IsNaN(df.col[c][i])} |-> df.col[c][i]]

\* json.dumps, line 398, raises TypeError on a Timestamp
DumpsRaises(features_json) ==
    \E c \in DOMAIN features_json : features_json[c].k = "ts"

\* lines 395-400: the record of row i
Record(df, i) ==
    [feature_timestamp |-> df.col["feature_timestamp"][i],
     tank_id |-> df.col["tank_id"][i],
     features |-> RowFeatures(df, FeatureColumns(df), i),
     feature_version |-> df.col["feature_version"][i]]

\* lines 404-407, for one record: the row it inserts, by key
Insert(record) ==
    <<record.feature_timestamp, record.tank_id>> :>
        [features |-> record.features,
         feature_version |-> record.feature_version]

\* ON CONFLICT DO NOTHING: the earlier row stays
UpsertKeepsEarlier(earlier, later) == earlier @@ later

\* lines 408-411: rows written after others; on a conflict on
\* (feature_timestamp, tank_id) the later features and feature_version
\* replace the earlier ones
Upsert(earlier, later) == later @@ earlier

\* line 415: the statement is executed for the records lo..hi, in order;
\* the rows this writes
RECURSIVE Executemany(_, _, _)
Executemany(df, lo, hi) ==
    IF lo = hi THEN Insert(Record(df, lo))
    ELSE Upsert(Executemany(df, lo, (lo + hi) \div 2),
                Executemany(df, (lo + hi) \div 2 + 1, hi))

\* save_features_to_db(features_df), lines 382-417, when the table holds
\* entries: the table it leaves, the exception it raises and the external
\* calls it issues.  All records are made before the statement is executed.
save_features_to_db(entries, features_df) ==
    IF IsEmpty(features_df)
    THEN [sink |-> entries, outcome |-> "nothing", error |-> "", io |-> <<>>]
    ELSE IF \E i \in 1..features_df.n :
              DumpsRaises(RowFeatures(features_df,
                                      FeatureColumns(features_df), i))
    THEN [sink |-> entries, outcome |-> "raised", error |-> "TypeError",
          io |-> <<>>]
    ELSE [sink |-> Upsert(entries, Executemany(features_df, 1, features_df.n)),
          outcome |-> "saved", error |-> "", io |-> <<"db_write">>]

\* the rows of the tables given to save_features_to_db: three keys, a
\* feature x that is 1.0 or missing, two versions
SaveRows ==
    {[tank_id |-> k[1], feature_timestamp |-> k[2], x |-> v[1],
      feature_version |-> v[2]] :
        k \in {<<"tankA", 420>>, <<"tankB", 420>>, <<"tankA", 480>>},
        v \in {<<Num(100), "v1.0">>, <<NaN, "v0.9">>}}

\* the table of the given rows
FrameOf(rows) ==
    [cols |-> <<"x", "tank_id", "feature_timestamp", "feature_version">>,
     col |-> [c \in {"x", "tank_id", "feature_timestamp", "feature_version"} |->
                [i \in 1..Len(rows) |->
                   CASE c = "x" -> rows[i].x
                     [] c = "tank_id" -> Str(rows[i].tank_id)
                     [] c = "feature_timestamp" -> Ts(rows[i].feature_timestamp)
                     [] c = "feature_version" -> Str(rows[i].feature_version)]],
     n |-> Len(rows)]

\* the tables made by hand that save_features_to_db is given
SaveInputs ==
    {EmptyFrame}
    \cup {FrameOf(<<r>>) : r \in SaveRows}
    \cup {FrameOf(<<r, q>>) : r \in SaveRows, q \in SaveRows}

\* the tables engineer_features returns of a run: the one computed, and the
\* one read back from the cache
ReturnedTables(run) ==
    IF run.raw_empty \/ run.error # "" THEN {}
    ELSE {run.final_features, ReadCached(run.json)}

\* a call of save_features_to_db(features_df) ends as r says
SaveFeatures(r, features_df) ==
    /\ sink' = r.sink
    /\ ret' = [op |-> "save", tank_id |-> "", target_time |-> 0,
               outcome |-> r.outcome, table |-> features_df,
               error |-> r.error, io |-> r.io]
    /\ UNCHANGED <<config, hash_seed, now, cache, store, batch>>

NextSave ==
    \E features_df \in
          SaveInputs \cup ReturnedTables(Pipelines[config, hash_seed,
                                                  store["tankA"], "tankA", 420]) :
        SaveFeatures(save_features_to_db(sink, features_df), features_df)

\* the engineers whose tanks hold the long series
InitSave == Init /\ store = [tank_id \in Tanks |-> "long"]

SpecSave == InitSave /\ [][NextSave]_vars

(***************************************************************************)
(* Properties of engineer_features and its cache.                          *)
(***************************************************************************)
\* C2: after engineer_features(tank, t) has computed and cached a table, the
\* next engineer_features(tank, t), when it is served from the cache before
\* the entry expires, returns a table equal to the first one and issues no
\* raw-data read and no metadata read.
C2_CacheRoundTrip ==
    [][(/\ ret.outcome = "computed"
        /\ ret'.outcome = "hit"
        /\ ret'.tank_id = ret.tank_id
        /\ ret'.target_time = ret.target_time)
       => /\ ret'.table = ret.table
          /\ \A i \in 1..Len(ret'.io) :
                ret'.io[i] \notin {"raw_read", "metadata_read"}]_vars

\* C3: whatever calls, store changes and expiries came before, a call that
\* returns a table returns the table a system without a cache would return.
C3_CacheTransparent ==
    [][(ret' # ret /\ ret'.outcome \in {"hit", "computed", "empty"})
       => ret'.table =
            engineer_features(config, hash_seed, <<>>, now,
                              store[ret'.tank_id], ret'.tank_id,
                              ret'.target_time, "none").table]_vars

\* C4: a call whose raw-data query succeeds and finds no reading of the tank
\* of sufficient quality in [target_time - lookback_hours, target_time]
\* returns the empty table and raises nothing.
C4_NoDataIsEmptyResult ==
    [][(/\ ret' # ret
        /\ ret'.op = "engineer_features"
        /\ \E i \in 1..Len(ret'.io) : ret'.io[i] = "raw_read"
        /\ ret'.error # "OperationalError"
        /\ LET held == Data(store[ret'.tank_id])
           IN \A i \in 1..Len(held) :
                \/ held[i].time < ret'.target_time - config.lookback_hours * 60
                \/ held[i].time > ret'.target_time
                \/ held[i].quality_score < 70)
       => /\ ret'.outcome = "empty"
          /\ ret'.error = ""
          /\ ret'.table = EmptyFrame
          /\ ret'.table.n = 0]_vars

\* a call found readings in the store, none of them in its window, and
\* returned the empty table
C4_Witness ==
    /\ ret.outcome = "empty"
    /\ ret.io = <<"cache_get", "raw_read">>
    /\ store[ret.tank_id] = "short"

\* C5: no external call is ever issued by an engineer whose configuration is
\* malformed (no sensor type, or a lookback that is not positive).
C5_MalformedConfigRejected ==
    (Len(config.sensor_types.v) = 0 \/ config.lookback_hours <= 0)
        => ret.io = <<>>

\* C6: a call that gets to the imputation step gets through it, and the
\* table it returns has no missing value in a numeric column.
C6_NoNaNAfterImputation ==
    (/\ ret.op = "engineer_features"
     /\ Len(config.sensor_types.v) > 0 /\ config.lookback_hours > 0
     /\ \E i \in 1..Len(ret.io) : ret.io[i] = "metadata_read"
     /\ ret.error # "OperationalError")
    => /\ ret.error # "ValueError"
       /\ \A c \in ColSet(ret.table) : \A i \in 1..ret.table.n :
             ret.table.col[c][i].k # "nan"

\* C7: the time features are columns of every table a call computes.
C7_TimeFeaturesInTable ==
    ret.outcome = "computed"
        => {"hour", "day_of_week", "month", "quarter", "hour_sin", "hour_cos",
            "day_sin", "day_cos", "month_sin", "month_cos", "is_weekend",
            "is_night", "is_feeding_time"} \subseteq ColSet(ret.table)

\* C10: a call changes the cache only when it has computed a non-empty
\* table, only as its last external call, and only by putting the document
\* of that table under "features:{tank_id}:{ISO-8601 target_time}", to
\* expire 3600 seconds later; and a call that computes a table does so.
C10_CacheWriteFrame ==
    [][now' = now =>
         LET key == "features:" \o ret'.tank_id \o ":2018-01-01T"
                        \o Pad2(ret'.target_time \div 60) \o ":"
                        \o Pad2(ret'.target_time % 60) \o ":00"
         IN IF cache' # cache
            THEN /\ ret'.outcome = "computed"
                 /\ ~IsEmpty(ret'.table)
                 /\ ret'.io[Len(ret'.io)] = "cache_set"
                 /\ Cardinality({i \in 1..Len(ret'.io) : ret'.io[i] = "cache_set"}) = 1
                 /\ DOMAIN cache' = DOMAIN cache \cup {key}
                 /\ \A k \in DOMAIN cache : k # key => cache'[k] = cache[k]
                 /\ cache'[key] = [value |-> to_json(ret'.table),
                                   expires |-> now + 3600]
            ELSE ret' # ret => ret'.outcome # "computed"]_vars

\* a call has computed a table and its document is in the cache
C10_Witness ==
    /\ ret.outcome = "computed"
    /\ ret.table.n > 0
    /\ DOMAIN cache # {}

(***************************************************************************)
(* Properties of batch_engineer_features.                                  *)
(***************************************************************************)
\* C1: when a batch returns, it has tried every unit of its grid whatever
\* the units before raised, and the table it returns is made of the rows of
\* the units that returned a non-empty table, in order: every cell a unit
\* returned is in its row, the other cells of the row are missing values,
\* and there is no other row (no unit succeeded: the empty table).
C1_BatchFailureIsolation ==
    batch.pc = "done" =>
        LET b == batch
            instants ==
                IF b.start_time > b.end_time \/ b.interval_hours <= 0 THEN 0
                ELSE (b.end_time - b.start_time) \div (b.interval_hours * 60) + 1
            good == SelectSeq(b.calls, LAMBDA u : u.outcome \in {"computed", "hit"})
            run(u) == Pipelines[config, hash_seed, store[u.tank_id], u.tank_id, u.time]
            tables == Explicit([k \in 1..Len(good) |->
                                  IF good[k].outcome = "computed"
                                  THEN run(good[k]).final_features
                                  ELSE ReadCached(run(good[k]).json)])
            upto[k \in 0..Len(good)] ==
                IF k = 0 THEN 0 ELSE upto[k - 1] + tables[k].n
        IN /\ Len(b.calls) = instants * Len(b.tank_ids)
           /\ b.result.n = upto[Len(good)]
           /\ ColSet(b.result) = UNION {ColSet(tables[k]) : k \in 1..Len(good)}
           /\ \A k \in 1..Len(good) : \A c \in ColSet(b.result) :
                 SubSeq(b.result.col[c], upto[k - 1] + 1, upto[k]) =
                     IF c \in ColSet(tables[k]) THEN tables[k].col[c]
                     ELSE [i \in 1..tables[k].n |-> NaN]
           /\ Len(good) = 0 => b.result = EmptyFrame

\* a batch has returned the rows of the units after one that raised
C1_Witness ==
    /\ batch.pc = "done"
    /\ batch.result.n > 0
    /\ \E i \in 1..Len(batch.calls) : \E j \in 1..Len(batch.calls) :
          /\ i < j
          /\ batch.calls[i].outcome = "raised"
          /\ batch.calls[j].outcome \in {"computed", "hit"}

\* C8: whatever the interval, no (instant, position in the tank list) is
\* worked on twice by a batch.
C8_EveryIntervalOncePerUnit ==
    \A i \in 1..Len(batch.calls) : \A j \in 1..Len(batch.calls) :
        (i < j) =>
            <<batch.calls[i].time, batch.calls[i].pos>>
                # <<batch.calls[j].time, batch.calls[j].pos>>

\* C8, for interval_hours > 0: the units a batch has worked on are the first
\* ones of its grid, instant by instant from start_time in steps of
\* interval_hours while not after end_time, the tanks of the list in order
\* within an instant; the batch has worked on all of them when it returns;
\* every step of the batch brings the return nearer, and no bound of the
\* model stops it.
C8_PositiveIntervalOncePerUnit ==
    [][(batch'.pc # "idle" /\ batch'.interval_hours > 0) =>
         LET b == batch'
             L == Len(b.tank_ids)
             instants ==
                 IF b.start_time > b.end_time THEN 0
                 ELSE (b.end_time - b.start_time) \div (b.interval_hours * 60) + 1
             Grid == [u \in 1..(instants * L) |->
                        [time |-> b.start_time
                                    + ((u - 1) \div L) * b.interval_hours * 60,
                         pos |-> ((u - 1) % L) + 1,
                         tank_id |-> b.tank_ids[((u - 1) % L) + 1]]]
             made == [u \in 1..Len(b.calls) |->
                        [time |-> b.calls[u].time, pos |-> b.calls[u].pos,
                         tank_id |-> b.calls[u].tank_id]]
             rank(x) ==
                 IF x.pc = "done" THEN 0
                 ELSE IF x.current_time > x.end_time THEN 1
                 ELSE 1 + ((x.end_time - x.current_time) \div 60 + 1) * (L + 1)
                        + (L + 1 - x.tank)
         IN /\ Len(made) <= Len(Grid)
            /\ made = SubSeq(Grid, 1, Len(made))
            /\ b.pc = "done" => made = Grid
            /\ batch.pc = "loop" => rank(b) < rank(batch)
            /\ b.pc = "loop" => Len(b.calls) < MaxCalls]_vars

(***************************************************************************)
(* Properties of save_features_to_db.                                      *)
(***************************************************************************)
\* C9: a call given an empty table writes nothing; a call that completes
\* leaves, under each (feature_timestamp, tank_id) of its rows, the cells
\* that are not missing and the version of the last row with that key,
\* leaves every other record as it was, and leaves a table that saving the
\* same rows again does not change.
C9_SaveIsUpsert ==
    [][ret'.op = "save" =>
         LET df == ret'.table
             key(i) == <<df.col["feature_timestamp"][i], df.col["tank_id"][i]>>
             keys == {key(i) : i \in 1..df.n}
             last(k) == CHOOSE i \in 1..df.n :
                          key(i) = k /\ \A j \in (i + 1)..df.n : key(j) # k
             features(i) ==
                 [c \in {c \in ColSet(df) \ {"tank_id", "feature_timestamp",
                                              "feature_version"} :
                            df.col[c][i].k # "nan"} |-> df.col[c][i]]
         IN IF df.n = 0
            THEN sink' = sink /\ ret'.io = <<>> /\ ret'.error = ""
            ELSE ret'.error = "" =>
                   /\ ret'.io = <<"db_write">>
                   /\ DOMAIN sink' = DOMAIN sink \cup keys
                   /\ \A k \in DOMAIN sink \ keys : sink'[k] = sink[k]
                   /\ \A k \in keys :
                         sink'[k] = [features |-> features(last(k)),
                                     feature_version |->
                                         df.col["feature_version"][last(k)]]
                   /\ save_features_to_db(sink', df).sink = sink']_vars

\* a call has replaced the record of a key that two of its rows share, and
\* left the record of another key alone
C9_Witness ==
    /\ ret.op = "save"
    /\ ret.error = ""
    /\ ret.table.n = 2
    /\ ret.table.col["tank_id"][1] = ret.table.col["tank_id"][2]
    /\ ret.table.col["feature_timestamp"][1] = ret.table.col["feature_timestamp"][2]
    /\ ret.table.col["x"][1] # ret.table.col["x"][2]
    /\ Cardinality(DOMAIN sink) > 1

====
